---------------------------- MODULE Spec2Model ----------------------------
(***************************************************************************)
(* A model of the time-delta library: the SignedTime value class           *)
(* (lib/SignedTime.ts) and the two functions duration and timeDiff         *)
(* (lib/index.ts).                                                         *)
(*                                                                         *)
(* A SignedTime instance is represented by the one field it has,           *)
(* #totalMilliseconds.  Numbers are the integers: every operation modelled *)
(* here keeps integer inputs integer, and all magnitudes stay far below    *)
(* 2^31, so JavaScript's doubles are exact on them.  JavaScript's -0 is    *)
(* identified with 0.  Strings are sequences of one-character strings.     *)
(***************************************************************************)
EXTENDS Integers, Sequences, FiniteSets

(***************************************************************************)
(* Bounds of the model.                                                    *)
(***************************************************************************)
MaxHour == 1

MaxDay == 1

\* The number of calls the program makes at most, the constructor calls
\* included.
MaxCalls == 4

(***************************************************************************)
(* JavaScript's Math functions on integers.                                *)
(***************************************************************************)
MathAbs(x) == IF x < 0 THEN -x ELSE x

MathSign(x) == IF x > 0 THEN 1 ELSE IF x < 0 THEN -1 ELSE 0

\* Math.floor(a / b) for b > 0: \div rounds toward minus infinity.
MathFloorDiv(a, b) == a \div b

\* Math.round(a / b) for b > 0.  Math.round returns the integer nearest to
\* its argument and, of two equally near, the one toward plus infinity:
\* floor(a/b + 1/2) = floor((2a + b) / 2b).
MathRoundDiv(a, b) == (2 * a + b) \div (2 * b)

\* a % b of JavaScript (the remainder has the sign of the dividend), b > 0.
JsRem(a, b) == MathSign(a) * (MathAbs(a) % b)

(***************************************************************************)
(* class SignedTime: construction and arithmetic.                          *)
(***************************************************************************)
\* A faulty constructor, which keeps the minutes below 60 and drops their
\* carry; C1 is tested against it.
SignedTimeWrapMinutes(hours, minutes, seconds, milliseconds) ==
    hours * 3600000 + JsRem(minutes, 60) * 60000 + seconds * 1000 + milliseconds

\* new SignedTime(hours, minutes, seconds, milliseconds): the value stored
\* in #totalMilliseconds.
SignedTime(hours, minutes, seconds, milliseconds) ==
    hours * 3600000 + minutes * 60000 + seconds * 1000 + milliseconds

fromMilliseconds(milliseconds) == SignedTime(0, 0, 0, milliseconds)

add(this, other) == fromMilliseconds(this + other)

\* A faulty subtract, which takes off the magnitude of the other duration;
\* C15 is tested against it.
subtractMagnitude(this, other) == fromMilliseconds(this - MathAbs(other))

subtract(this, other) == fromMilliseconds(this - other)

multiply(this, scalar) == fromMilliseconds(this * scalar)

ErrNone == "none"

ErrDivision == "Division by zero is not allowed"

\* A faulty divide, without the test for 0, whose quotient by 0 is taken as
\* 0; C14 is tested against it.
divideUnchecked(this, scalar) ==
    [error |-> ErrNone,
     value |-> IF scalar = 0 THEN 0
               ELSE fromMilliseconds(MathSign(this) * MathSign(scalar)
                                     * (MathAbs(this) \div MathAbs(scalar)))]

\* this.divide(scalar): the error thrown ("none" when it returns) and the
\* #totalMilliseconds of the instance returned.  The quotient is that of
\* JavaScript when scalar divides this exactly, the only case the model
\* draws.
divide(this, scalar) ==
    IF scalar = 0 THEN [error |-> ErrDivision, value |-> 0]
    ELSE [error |-> ErrNone,
          value |-> fromMilliseconds(MathSign(this) * MathSign(scalar)
                                     * (MathAbs(this) \div MathAbs(scalar)))]

negate(this) == fromMilliseconds(-this)

abs(this) == fromMilliseconds(MathAbs(this))

\* A faulty roundToSecond, which goes to the multiple of the second above the
\* receiver even when the receiver is one; C16 is tested against it.
roundToSecondAbove(this) == fromMilliseconds((MathFloorDiv(this, 1000) + 1) * 1000)

roundToSecond(this) == fromMilliseconds(MathRoundDiv(this, 1000) * 1000)

roundToMinute(this) == fromMilliseconds(MathRoundDiv(this, 60000) * 60000)

roundToHour(this) == fromMilliseconds(MathRoundDiv(this, 3600000) * 3600000)

equals(this, other) == this = other

isGreaterThan(this, other) == this > other

isLessThan(this, other) == this < other

isBetween(this, min, max) == ~isLessThan(this, min) /\ ~isGreaterThan(this, max)

\* A faulty clamp, which tests the receiver against max only; C17 is tested
\* against it.
clampAbove(instances, this, min, max) ==
    IF isGreaterThan(instances[this], instances[max]) THEN max
    ELSE this

\* this.clamp(min, max), on references: instances[r] is the
\* #totalMilliseconds of the instance the reference r denotes, and the value
\* is the reference returned.
clamp(instances, this, min, max) ==
    IF isLessThan(instances[this], instances[min]) THEN min
    ELSE IF isGreaterThan(instances[this], instances[max]) THEN max
    ELSE this

(***************************************************************************)
(* Strings, and the String and Number methods the class uses.              *)
(***************************************************************************)
DigitChars == <<"0", "1", "2", "3", "4", "5", "6", "7", "8", "9">>

IsDigit(c) == \E d \in 1..10 : DigitChars[d] = c

DigitValue(c) == (CHOOSE d \in 1..10 : DigitChars[d] = c) - 1

\* Number.prototype.toString() of an integer n >= 0.
RECURSIVE NumberToString(_)
NumberToString(n) ==
    IF n < 10 THEN <<DigitChars[n + 1]>>
    ELSE NumberToString(n \div 10) \o <<DigitChars[(n % 10) + 1]>>

\* String.prototype.padStart(targetLength, "0").
RECURSIVE padStart(_, _)
padStart(str, targetLength) ==
    IF Len(str) >= targetLength THEN str ELSE padStart(<<"0">> \o str, targetLength)

\* parseInt(str, 10) of a string of decimal digits.
RECURSIVE parseInt(_)
parseInt(str) ==
    IF str = <<>> THEN 0
    ELSE parseInt(SubSeq(str, 1, Len(str) - 1)) * 10 + DigitValue(str[Len(str)])

\* Whether search occurs in str at position i.
OccursAt(str, search, i) ==
    /\ i >= 1
    /\ i + Len(search) - 1 <= Len(str)
    /\ \A k \in 1..Len(search) : str[i + k - 1] = search[k]

\* String.prototype.indexOf(search, position), 1-based; 0 when search does
\* not occur at or after position.
indexOfFrom(str, search, position) ==
    LET hits == {i \in position..Len(str) : OccursAt(str, search, i)}
    IN  IF hits = {} THEN 0 ELSE CHOOSE i \in hits : \A j \in hits : i <= j

indexOf(str, search) == indexOfFrom(str, search, 1)

\* String.prototype.replace(search, replacement) with a string pattern:
\* only the first occurrence is replaced.  The replacements used by the
\* class are decimal numbers, which hold no "$" pattern.
replace(str, search, replacement) ==
    LET i == indexOf(str, search)
    IN  IF i = 0 THEN str
        ELSE SubSeq(str, 1, i - 1) \o replacement
                 \o SubSeq(str, i + Len(search), Len(str))

\* String.prototype.replace(/search/g, replacement) for a regular expression
\* that is a literal string: every occurrence, left to right, not overlapping.
RECURSIVE replaceAllFrom(_, _, _, _)
replaceAllFrom(str, search, replacement, i) ==
    LET j == indexOfFrom(str, search, i)
    IN  IF j = 0 THEN SubSeq(str, i, Len(str))
        ELSE SubSeq(str, i, j - 1) \o replacement
                 \o replaceAllFrom(str, search, replacement, j + Len(search))

replaceAll(str, search, replacement) == replaceAllFrom(str, search, replacement, 1)

\* The characters the class \s matches, among those of the model's strings.
Whitespace == {" ", "\t"}

\* String.prototype.replace(/[/:.\s]/g, '\\$&'): a backslash is put before
\* every "/", ":", "." and whitespace character.
Separators == {"/", ":", "."} \cup Whitespace

RECURSIVE escapeSeparatorsFrom(_, _)
escapeSeparatorsFrom(str, i) ==
    LET hits == {k \in i..Len(str) : str[k] \in Separators}
    IN  IF hits = {} THEN SubSeq(str, i, Len(str))
        ELSE LET j == CHOOSE k \in hits : \A l \in hits : k <= l
             IN  SubSeq(str, i, j - 1) \o <<"\\", str[j]>>
                     \o escapeSeparatorsFrom(str, j + 1)

escapeSeparators(str) == escapeSeparatorsFrom(str, 1)

(***************************************************************************)
(* SignedTime.formatMilliseconds and toString.                             *)
(***************************************************************************)
DefaultFormat == <<"h", "h", ":", "m", "m", ":", "s", "s", ".", "S", "S", "S">>

\* A faulty formatMilliseconds, which wraps the hours at 24; C11 is tested
\* against it.
formatMillisecondsWrapDay(milliseconds, format) ==
    LET isNegative == milliseconds < 0
        absMs == MathAbs(milliseconds)
        hh == MathFloorDiv(absMs, 3600000) % 24
        mm == MathFloorDiv(JsRem(absMs, 3600000), 60000)
        ss == MathFloorDiv(JsRem(absMs, 60000), 1000)
        ms == JsRem(absMs, 1000)
        r1 == replace(format, <<"h", "h">>, padStart(NumberToString(hh), 2))
        r2 == replace(r1, <<"h">>, NumberToString(hh))
        r3 == replace(r2, <<"m", "m">>, padStart(NumberToString(mm), 2))
        r4 == replace(r3, <<"m">>, NumberToString(mm))
        r5 == replace(r4, <<"s", "s">>, padStart(NumberToString(ss), 2))
        r6 == replace(r5, <<"s">>, NumberToString(ss))
        r7 == replace(r6, <<"S", "S", "S">>, padStart(NumberToString(ms), 3))
        result == replace(r7, <<"S">>, NumberToString(ms))
    IN  IF isNegative THEN <<"-">> \o result ELSE result

formatMilliseconds(milliseconds, format) ==
    LET isNegative == milliseconds < 0
        absMs == MathAbs(milliseconds)
        hh == MathFloorDiv(absMs, 3600000)
        mm == MathFloorDiv(JsRem(absMs, 3600000), 60000)
        ss == MathFloorDiv(JsRem(absMs, 60000), 1000)
        ms == JsRem(absMs, 1000)
        r1 == replace(format, <<"h", "h">>, padStart(NumberToString(hh), 2))
        r2 == replace(r1, <<"h">>, NumberToString(hh))
        r3 == replace(r2, <<"m", "m">>, padStart(NumberToString(mm), 2))
        r4 == replace(r3, <<"m">>, NumberToString(mm))
        r5 == replace(r4, <<"s", "s">>, padStart(NumberToString(ss), 2))
        r6 == replace(r5, <<"s">>, NumberToString(ss))
        r7 == replace(r6, <<"S", "S", "S">>, padStart(NumberToString(ms), 3))
        result == replace(r7, <<"S">>, NumberToString(ms))
    IN  IF isNegative THEN <<"-">> \o result ELSE result

toString(this, format) == formatMilliseconds(this, format)

(***************************************************************************)
(* SignedTime.fromFormat.                                                  *)
(***************************************************************************)
\* The capture groups the format's tokens are replaced by.
Group2 == <<"(", "\\", "d", "{", "2", "}", ")">>

Group12 == <<"(", "\\", "d", "{", "1", ",", "2", "}", ")">>

Group3 == <<"(", "\\", "d", "{", "3", "}", ")">>

Group13 == <<"(", "\\", "d", "{", "1", ",", "3", "}", ")">>

\* A faulty pattern, in which a one-letter token demands the digits of the
\* padded token; C9 is tested against it.
formatPatternFixedWidth(format) ==
    LET p1 == replaceAll(format, <<"h", "h">>, Group2)
        p2 == replaceAll(p1, <<"h">>, Group2)
        p3 == replaceAll(p2, <<"m", "m">>, Group2)
        p4 == replaceAll(p3, <<"m">>, Group2)
        p5 == replaceAll(p4, <<"s", "s">>, Group2)
        p6 == replaceAll(p5, <<"s">>, Group2)
        p7 == replaceAll(p6, <<"S", "S", "S">>, Group3)
        p8 == replaceAll(p7, <<"S">>, Group3)
    IN  escapeSeparators(p8)

\* The source of the regular expression built from the format (without the
\* anchors ^ and $, which RegExpMatch applies).
formatPattern(format) ==
    LET p1 == replaceAll(format, <<"h", "h">>, Group2)
        p2 == replaceAll(p1, <<"h">>, Group12)
        p3 == replaceAll(p2, <<"m", "m">>, Group2)
        p4 == replaceAll(p3, <<"m">>, Group12)
        p5 == replaceAll(p4, <<"s", "s">>, Group2)
        p6 == replaceAll(p5, <<"s">>, Group12)
        p7 == replaceAll(p6, <<"S", "S", "S">>, Group3)
        p8 == replaceAll(p7, <<"S">>, Group13)
    IN  escapeSeparators(p8)

\* One element of a parsed regular expression: a capture group of lo to hi
\* decimal digits, or one literal character; plus tells whether the
\* quantifier + follows it.
DigitsPiece(lo, hi) ==
    [kind |-> "digits", ch |-> "", lo |-> lo, hi |-> hi, plus |-> FALSE]

LiteralPiece(c) == [kind |-> "literal", ch |-> c, lo |-> 1, hi |-> 1, plus |-> FALSE]

\* The element that starts at position i of the pattern, and its length in
\* the pattern.
PieceAt(pattern, i) ==
    IF OccursAt(pattern, Group2, i)
    THEN [piece |-> DigitsPiece(2, 2), len |-> Len(Group2)]
    ELSE IF OccursAt(pattern, Group12, i)
         THEN [piece |-> DigitsPiece(1, 2), len |-> Len(Group12)]
    ELSE IF OccursAt(pattern, Group3, i)
         THEN [piece |-> DigitsPiece(3, 3), len |-> Len(Group3)]
    ELSE IF OccursAt(pattern, Group13, i)
         THEN [piece |-> DigitsPiece(1, 3), len |-> Len(Group13)]
    ELSE IF pattern[i] = "\\" /\ i < Len(pattern)
         THEN [piece |-> LiteralPiece(pattern[i + 1]), len |-> 2]
    ELSE [piece |-> LiteralPiece(pattern[i]), len |-> 1]

\* new RegExp(pattern), for the patterns formatPattern builds from the
\* formats of the model: the four capture groups, a backslash and the
\* character it escapes, characters that match themselves, and the quantifier
\* + behind any of these.
RECURSIVE RegExpFrom(_, _)
RegExpFrom(pattern, i) ==
    IF i > Len(pattern) THEN <<>>
    ELSE LET p == PieceAt(pattern, i)
             plus == i + p.len <= Len(pattern) /\ pattern[i + p.len] = "+"
         IN  <<[p.piece EXCEPT !.plus = plus]>>
                 \o RegExpFrom(pattern, i + p.len + (IF plus THEN 1 ELSE 0))

RegExp(pattern) == RegExpFrom(pattern, 1)

NoMatch == [matched |-> FALSE, groups |-> <<>>]

\* Whether str[j .. j+n-1] exists and holds only digits.
DigitsAt(str, j, n) ==
    /\ j + n - 1 <= Len(str)
    /\ \A k \in j..(j + n - 1) : IsDigit(str[k])

\* Whether the piece matches the n characters of str at j.
PieceMatches(piece, str, j, n) ==
    IF piece.kind = "digits" THEN DigitsAt(str, j, n)
    ELSE j <= Len(str) /\ str[j] = piece.ch

\* The backtracking match of pieces[i..] against str[j..], anchored at the
\* end of str.  A digit group is greedy: RegExpTry tries it with n digits,
\* then fewer.  A piece under + is greedy too: after one match of it another
\* is tried first, and the group keeps the text of its last match.
RECURSIVE RegExpMatchFrom(_, _, _, _), RegExpTry(_, _, _, _, _)
RegExpMatchFrom(pieces, i, str, j) ==
    IF i > Len(pieces)
    THEN (IF j > Len(str) THEN [matched |-> TRUE, groups |-> <<>>] ELSE NoMatch)
    ELSE RegExpTry(pieces, i, str, j, pieces[i].hi)

RegExpTry(pieces, i, str, j, n) ==
    IF n < pieces[i].lo THEN NoMatch
    ELSE IF ~PieceMatches(pieces[i], str, j, n)
         THEN RegExpTry(pieces, i, str, j, n - 1)
    ELSE LET again == IF pieces[i].plus
                      THEN RegExpTry(pieces, i, str, j + n, pieces[i].hi)
                      ELSE NoMatch
             rest == RegExpMatchFrom(pieces, i + 1, str, j + n)
             group == IF pieces[i].kind = "digits"
                      THEN <<SubSeq(str, j, j + n - 1)>>
                      ELSE <<>>
         IN  IF again.matched THEN again
             ELSE IF rest.matched
                  THEN [matched |-> TRUE, groups |-> group \o rest.groups]
             ELSE RegExpTry(pieces, i, str, j, n - 1)

\* str.match(new RegExp(`^${pattern}$`)): whether it matched, and the text
\* of the capture groups match[1], match[2], ...
RegExpMatch(str, pattern) == RegExpMatchFrom(RegExp(pattern), 1, str, 1)

\* format.match(/(hh|h|mm|m|ss|s|SSS|S)/g): the tokens of the format, left to
\* right, each the first alternative that matches at its position.
TokenAlternatives ==
    << <<"h", "h">>, <<"h">>, <<"m", "m">>, <<"m">>,
       <<"s", "s">>, <<"s">>, <<"S", "S", "S">>, <<"S">> >>

\* The alternatives that match at position i of the format.
AlternativesAt(format, i) ==
    {a \in 1..Len(TokenAlternatives) : OccursAt(format, TokenAlternatives[a], i)}

RECURSIVE formatTokensFrom(_, _)
formatTokensFrom(format, i) ==
    LET hits == {k \in i..Len(format) : AlternativesAt(format, k) # {}}
    IN  IF hits = {} THEN <<>>
        ELSE LET j == CHOOSE k \in hits : \A l \in hits : k <= l
                 alts == AlternativesAt(format, j)
                 a == CHOOSE x \in alts : \A y \in alts : x <= y
                 token == TokenAlternatives[a]
             IN  <<token>> \o formatTokensFrom(format, j + Len(token))

formatTokens(format) == formatTokensFrom(format, 1)

\* The loop over formatTokens: the value of the last token of each component
\* is kept; a component without a token stays 0.
RECURSIVE assignTokens(_, _, _, _)
assignTokens(tokens, groups, matchIndex, acc) ==
    IF matchIndex > Len(tokens) THEN acc
    ELSE LET value == parseInt(groups[matchIndex])
             c == Head(tokens[matchIndex])
             next == IF c = "h" THEN [acc EXCEPT !.hours = value]
                     ELSE IF c = "m" THEN [acc EXCEPT !.minutes = value]
                     ELSE IF c = "s" THEN [acc EXCEPT !.seconds = value]
                     ELSE [acc EXCEPT !.milliseconds = value]
         IN  assignTokens(tokens, groups, matchIndex + 1, next)

\* A faulty normalize, which wraps the overflowing components and drops
\* their carries; C21 is tested against it.
normalizeWrap(parsed) ==
    [parsed EXCEPT !.milliseconds = JsRem(@, 1000),
                   !.seconds = JsRem(@, 60),
                   !.minutes = JsRem(@, 60)]

\* The carries of overflowing components, in the order ms, s, m.
normalize(parsed) ==
    LET n1 == IF parsed.milliseconds >= 1000
              THEN [parsed EXCEPT
                      !.seconds = @ + MathFloorDiv(parsed.milliseconds, 1000),
                      !.milliseconds = JsRem(@, 1000)]
              ELSE parsed
        n2 == IF n1.seconds >= 60
              THEN [n1 EXCEPT !.minutes = @ + MathFloorDiv(n1.seconds, 60),
                              !.seconds = JsRem(@, 60)]
              ELSE n1
        n3 == IF n2.minutes >= 60
              THEN [n2 EXCEPT !.hours = @ + MathFloorDiv(n2.minutes, 60),
                              !.minutes = JsRem(@, 60)]
              ELSE n2
    IN  n3

ErrFormat == "Invalid time string format"

ErrMatchIndex == "Invalid match index"

\* A faulty fromFormat, which gives the sign to the hours alone; C8 is tested
\* against it.
fromFormatSignOnHours(timeString, format) ==
    LET isNegative == Len(timeString) >= 1 /\ timeString[1] = "-"
        cleanTimeString == IF isNegative THEN Tail(timeString) ELSE timeString
        match == RegExpMatch(cleanTimeString, formatPattern(format))
        tokens == formatTokens(format)
    IN  IF ~match.matched THEN [error |-> ErrFormat, value |-> 0]
        ELSE IF Len(match.groups) < Len(tokens)
             THEN [error |-> ErrMatchIndex, value |-> 0]
        ELSE LET zero == [hours |-> 0, minutes |-> 0, seconds |-> 0,
                          milliseconds |-> 0]
                 n == normalize(assignTokens(tokens, match.groups, 1, zero))
             IN  [error |-> ErrNone,
                  value |-> SignedTime(IF isNegative THEN -n.hours ELSE n.hours,
                                       n.minutes, n.seconds, n.milliseconds)]

\* A faulty fromFormat, which takes the '-' off the string and then forgets
\* it; C13 is tested against it.
fromFormatUnsigned(timeString, format) ==
    LET isNegative == Len(timeString) >= 1 /\ timeString[1] = "-"
        cleanTimeString == IF isNegative THEN Tail(timeString) ELSE timeString
        match == RegExpMatch(cleanTimeString, formatPattern(format))
        tokens == formatTokens(format)
    IN  IF ~match.matched THEN [error |-> ErrFormat, value |-> 0]
        ELSE IF Len(match.groups) < Len(tokens)
             THEN [error |-> ErrMatchIndex, value |-> 0]
        ELSE LET zero == [hours |-> 0, minutes |-> 0, seconds |-> 0,
                          milliseconds |-> 0]
                 n == normalize(assignTokens(tokens, match.groups, 1, zero))
             IN  [error |-> ErrNone,
                  value |-> SignedTime(n.hours, n.minutes, n.seconds,
                                       n.milliseconds)]

\* A faulty fromFormat, which drops one space at the end of the string
\* before it matches; C12 is tested against it.
fromFormatTrimEnd(timeString, format) ==
    LET isNegative == Len(timeString) >= 1 /\ timeString[1] = "-"
        signless == IF isNegative THEN Tail(timeString) ELSE timeString
        cleanTimeString == IF Len(signless) >= 1 /\ signless[Len(signless)] = " "
                           THEN SubSeq(signless, 1, Len(signless) - 1)
                           ELSE signless
        match == RegExpMatch(cleanTimeString, formatPattern(format))
        tokens == formatTokens(format)
    IN  IF ~match.matched THEN [error |-> ErrFormat, value |-> 0]
        ELSE IF Len(match.groups) < Len(tokens)
             THEN [error |-> ErrMatchIndex, value |-> 0]
        ELSE LET zero == [hours |-> 0, minutes |-> 0, seconds |-> 0,
                          milliseconds |-> 0]
                 n == normalize(assignTokens(tokens, match.groups, 1, zero))
                 time == SignedTime(n.hours, n.minutes, n.seconds, n.milliseconds)
             IN  [error |-> ErrNone,
                  value |-> IF isNegative THEN negate(time) ELSE time]

\* SignedTime.fromFormat(timeString, format): the error thrown ("none" when
\* it returns) and the #totalMilliseconds of the instance returned.
fromFormat(timeString, format) ==
    LET isNegative == Len(timeString) >= 1 /\ timeString[1] = "-"
        cleanTimeString == IF isNegative THEN Tail(timeString) ELSE timeString
        match == RegExpMatch(cleanTimeString, formatPattern(format))
        tokens == formatTokens(format)
    IN  IF ~match.matched THEN [error |-> ErrFormat, value |-> 0]
        ELSE IF Len(match.groups) < Len(tokens)
             THEN [error |-> ErrMatchIndex, value |-> 0]
        ELSE LET zero == [hours |-> 0, minutes |-> 0, seconds |-> 0,
                          milliseconds |-> 0]
                 n == normalize(assignTokens(tokens, match.groups, 1, zero))
                 time == SignedTime(n.hours, n.minutes, n.seconds, n.milliseconds)
             IN  [error |-> ErrNone,
                  value |-> IF isNegative THEN negate(time) ELSE time]

(***************************************************************************)
(* class SignedTime: the component getters.                                *)
(***************************************************************************)
\* A faulty getter, which floors the signed quotient; C7 is tested against
\* it.
hoursFloorSigned(this) == MathFloorDiv(this, 3600000)

hours(this) == MathFloorDiv(MathAbs(this), 3600000) * MathSign(this)

\* A faulty getter, which counts all the minutes of the duration, those of
\* its hours included; C22 is tested against it.
minutesOfTotal(this) == MathFloorDiv(MathAbs(this), 60000) * MathSign(this)

minutes(this) ==
    MathFloorDiv(JsRem(MathAbs(this), 3600000), 60000) * MathSign(this)

seconds(this) ==
    MathFloorDiv(JsRem(MathAbs(this), 60000), 1000) * MathSign(this)

milliseconds(this) == JsRem(MathAbs(this), 1000) * MathSign(this)

(***************************************************************************)
(* Dates.  A DateLike argument is a record: its kind, and for a number, a  *)
(* string or a Date the time value it carries (t, milliseconds since the   *)
(* epoch) or that it carries none (nan).  The local clock runs             *)
(* tz = getTimezoneOffset() minutes behind UTC.                            *)
(***************************************************************************)
MsPerDay == 24 * 3600000

DateLike(kind, nan, t) == [kind |-> kind, nan |-> nan, t |-> t]

\* new Date(value): null converts to the number 0, undefined and an object
\* that is no Date to NaN; a number is the time value, a string is parsed, a
\* Date is copied.
NewDate(value) ==
    IF value.kind = "null" THEN [nan |-> FALSE, t |-> 0]
    ELSE IF value.kind \in {"undefined", "object"} THEN [nan |-> TRUE, t |-> 0]
    ELSE [nan |-> value.nan, t |-> IF value.nan THEN 0 ELSE value.t]

\* isNaN(date.getTime())
isNaNTime(date) == date.nan

\* A faulty local time, which counts from the epoch, not from midnight; C23
\* is tested against it.
LocalTimeSinceEpoch(date, tz) == date.t - tz * 60000

LocalTime(date, tz) == (date.t - tz * 60000) % MsPerDay

getHours(date, tz) == LocalTime(date, tz) \div 3600000

getMinutes(date, tz) == (LocalTime(date, tz) % 3600000) \div 60000

getSeconds(date, tz) == (LocalTime(date, tz) % 60000) \div 1000

getMilliseconds(date, tz) == LocalTime(date, tz) % 1000

fromDate(date, tz) ==
    SignedTime(getHours(date, tz), getMinutes(date, tz),
               getSeconds(date, tz), getMilliseconds(date, tz))

(***************************************************************************)
(* lib/index.ts: duration and timeDiff.  Each yields the error thrown      *)
(* ("none" when it returns) and the #totalMilliseconds of the instance     *)
(* returned.                                                               *)
(***************************************************************************)
ErrInvalidDate == "Invalid Date"

\* A faulty duration, which subtracts the time values, not the clock
\* readings; C3 is tested against it.
durationElapsed(from, to, tz) ==
    IF from.kind \in {"null", "undefined"} \/ to.kind \in {"null", "undefined"}
    THEN [error |-> ErrInvalidDate, value |-> 0]
    ELSE LET fromDate_ == NewDate(from)
             toDate == NewDate(to)
         IN  IF isNaNTime(fromDate_) \/ isNaNTime(toDate)
             THEN [error |-> ErrInvalidDate, value |-> 0]
             ELSE [error |-> ErrNone,
                   value |-> fromMilliseconds(toDate.t - fromDate_.t)]

\* A faulty duration, without the test for null and undefined; C4 is tested
\* against it.
durationNoNullCheck(from, to, tz) ==
    LET fromDate_ == NewDate(from)
        toDate == NewDate(to)
    IN  IF isNaNTime(fromDate_) \/ isNaNTime(toDate)
        THEN [error |-> ErrInvalidDate, value |-> 0]
        ELSE LET fromTime == fromDate(fromDate_, tz)
                 toTime == fromDate(toDate, tz)
             IN  [error |-> ErrNone, value |-> subtract(toTime, fromTime)]

duration(from, to, tz) ==
    IF from.kind \in {"null", "undefined"} \/ to.kind \in {"null", "undefined"}
    THEN [error |-> ErrInvalidDate, value |-> 0]
    ELSE LET fromDate_ == NewDate(from)
             toDate == NewDate(to)
         IN  IF isNaNTime(fromDate_) \/ isNaNTime(toDate)
             THEN [error |-> ErrInvalidDate, value |-> 0]
             ELSE LET fromTime == fromDate(fromDate_, tz)
                      toTime == fromDate(toDate, tz)
                  IN  [error |-> ErrNone, value |-> subtract(toTime, fromTime)]

\* A faulty timeDiff, which rounds first and takes the absolute value last;
\* C5 is tested against it.
timeDiffRoundThenAbs(from, to, options, tz) ==
    LET d == duration(from, to, tz)
    IN  IF d.error # ErrNone THEN d
        ELSE LET rounded == IF options.roundTo = "hour" THEN roundToHour(d.value)
                            ELSE IF options.roundTo = "minute"
                                 THEN roundToMinute(d.value)
                            ELSE IF options.roundTo = "second"
                                 THEN roundToSecond(d.value)
                            ELSE d.value
             IN  [error |-> ErrNone,
                  value |-> IF options.absolute = "true" THEN abs(rounded)
                            ELSE rounded]

timeDiff(from, to, options, tz) ==
    LET d == duration(from, to, tz)
    IN  IF d.error # ErrNone THEN d
        ELSE LET diff == IF options.absolute = "true" THEN abs(d.value)
                         ELSE d.value
             IN  [error |-> ErrNone,
                  value |-> IF options.roundTo = "hour" THEN roundToHour(diff)
                            ELSE IF options.roundTo = "minute"
                                 THEN roundToMinute(diff)
                            ELSE IF options.roundTo = "second"
                                 THEN roundToSecond(diff)
                            ELSE diff]

(***************************************************************************)
(* The inputs the operations are applied to.                               *)
(***************************************************************************)
HourInputs == (-MaxHour..MaxHour) \cup {-99, 25, 99, 100}

MinuteInputs == {-30, 0, 30, 90}

SecondInputs == {-30, -1, 0, 1, 45}

MillisecondInputs == {-500, 0, 500}

FormatHMS == <<"h", ":", "m", ":", "s">>

FormatHMmSsSSS == <<"h", ":", "m", "m", ":", "s", "s", ".", "S", "S", "S">>

FormatHhMSF == <<"h", "h", ":", "m", ":", "s", ".", "S">>

FormatMmSs == <<"m", "m", ":", "s", "s">>

\* 'h hours m minutes s seconds', the custom format of the README.
FormatWords ==
    <<"h", " ", "h", "o", "u", "r", "s", " ",
      "m", " ", "m", "i", "n", "u", "t", "e", "s", " ",
      "s", " ", "s", "e", "c", "o", "n", "d", "s">>

\* Formats that hold a token twice: 'h-h', 'hh-hh', 'mm:mm'.
FormatHH == <<"h", "-", "h">>

FormatHhHh == <<"h", "h", "-", "h", "h">>

FormatMmMm == <<"m", "m", ":", "m", "m">>

\* The formats given to toString, and those given to fromFormat.
Formats ==
    {DefaultFormat, FormatHMS, FormatHMmSsSSS, FormatHhMSF, FormatMmSs,
     FormatWords, FormatHH, FormatHhHh, FormatMmMm}

ParseFormats ==
    {DefaultFormat, FormatHMS, FormatHMmSsSSS, FormatHhMSF, FormatMmSs}

\* 'h/m s' and 'h+m': formats with other characters between the tokens.
FormatSlash == <<"h", "/", "m", " ", "s">>

FormatPlus == <<"h", "+", "m">>

\* The formats given to fromFormat with strings of any kind: those whose
\* tokens are separated by ':', '.', '/' or a space, and 'h+m'.
SeparatorFormats == ParseFormats \cup {FormatSlash}

TimeStringFormats == SeparatorFormats \cup {FormatPlus}

\* The strings given to fromFormat: a body, with or without characters in
\* front of it and behind it.
TimeStringPrefixes == {<<>>, <<"-">>, <<"-", "-">>, <<" ">>}

TimeStringBodies ==
    {<<"0", "1", ":", "3", "0", ":", "0", "0", ".", "0", "0", "0">>,
     <<"0", "1", ":", "3", "0", ":", "4", "5", ".", "5", "0", "0">>,
     <<"0", "0", ":", "0", "0", ":", "0", "0", ".", "0", "0", "0">>,
     <<"9", "9", ":", "5", "9", ":", "5", "9", ".", "9", "9", "9">>,
     <<"2", "5", ":", "0", "0", ":", "0", "0">>,
     <<"1", ":", "7", "5", ":", "9", "0">>,
     <<"1", ":", "3", "0", ":", "4", "5">>,
     <<"1", ":", "3", ":", "4">>,
     <<"3", "0", ":", "4", "5">>,
     <<"9", "9", ":", "9", "9">>,
     <<"0", "1", ":", "3", "0", ":", "4", "5", ".", "5">>,
     <<"1", ":", "3", "0", ":", "4", "5", ".", "5", "0", "0">>,
     <<"0", "0", "1", ":", "3", "0", ":", "0", "0", ".", "0", "0", "0">>,
     <<"i", "n", "v", "a", "l", "i", "d">>,
     <<"1", "/", "3", "0", " ", "4", "5">>,
     <<"1", "+", "3", "0">>,
     <<"1", "3", "0">>,
     <<>>}

TimeStringSuffixes == {<<>>, <<" ">>, <<"0">>}

TimeStrings ==
    {p \o b \o x : p \in TimeStringPrefixes, b \in TimeStringBodies,
                   x \in TimeStringSuffixes}

\* The components the instances the arithmetic starts from are constructed
\* of, <<hours, minutes, seconds, milliseconds>>: -1h30m, -1500 ms and
\* 1h30m45.5s; and the scalars given to multiply and divide.
ComponentInputs == {<<-1, -30, 0, 0>>, <<0, 0, -1, -500>>, <<1, 30, 45, 500>>}

ScalarInputs == {-2, 0}

\* Clock readings (milliseconds since midnight, UTC) of the instants given to
\* duration and timeDiff: 00:00:00.000, 00:00:01.500, 00:01:30.000,
\* 10:00:00.000, 10:30:00.000, 10:30:45.500, 12:00:00.000, and 14:59:59.999
\* and 15:00:00.000, the last and the first millisecond of a day 9 hours
\* ahead of UTC.
ClockInputs ==
    {0, 1500, 90000, 36000000, 37800000, 37845500, 43200000, 53999999, 54000000}

Timestamps == {d * MsPerDay + c : d \in 0..MaxDay, c \in ClockInputs}

\* getTimezoneOffset() of the environment, in minutes.
TimezoneOffsets == {-540, 300}

DateLikeInputs ==
    {DateLike("number", FALSE, t) : t \in Timestamps}
    \cup {DateLike("string", FALSE, 36000000), DateLike("Date", FALSE, 43200000),
          DateLike("number", TRUE, 0), DateLike("string", TRUE, 0),
          DateLike("Date", TRUE, 0), DateLike("null", TRUE, 0),
          DateLike("undefined", TRUE, 0), DateLike("object", TRUE, 0)}

OptionsInputs ==
    [absolute : {"undefined", "false", "true"},
     roundTo : {"undefined", "hour", "minute", "second", "millisecond"}]

NoDate == DateLike("undefined", TRUE, 0)

NoOptions == [absolute |-> "undefined", roundTo |-> "undefined"]

(***************************************************************************)
(* The state: the last call, its inputs and what it gave.                  *)
(*   call     the operation called last                                    *)
(*   time     #totalMilliseconds of the instance constructed or returned   *)
(*            last                                                         *)
(*   recv     #totalMilliseconds of the receiver of the last method call   *)
(*   argv     the arguments of the last constructor or method call         *)
(*   view     the components the getters returned, <<h, m, s, ms>>         *)
(*   fmt      the format of the last toString or fromFormat                *)
(*   text     the string the last toString returned                        *)
(*   err      the error the last call threw, or "none"                     *)
(*   from, to, options, tz   the inputs of the last duration or timeDiff   *)
(*   calls    the calls made that return an instance or throw, in their    *)
(*            order: of each the instance it returned (obj, the instances  *)
(*            being numbered from 1 as they are created, 0 when it threw), *)
(*            the #totalMilliseconds of that instance, the method called,  *)
(*            and its receiver and arguments; a reference is the index in  *)
(*            calls of a call that returned                                *)
(*   self     the reference the last method was called on                  *)
(*   ret      the reference the last method returned, 0 when it threw      *)
(***************************************************************************)
VARIABLES call, time, recv, argv, view, fmt, text, err, from, to, options, tz,
          calls, self, ret

vars ==
    <<call, time, recv, argv, view, fmt, text, err, from, to, options, tz,
      calls, self, ret>>

dateVars == <<from, to, options, tz>>

refVars == <<calls, self, ret>>

NoRefs ==
    /\ calls = <<>>
    /\ self = 0
    /\ ret = 0

\* new SignedTime(h, m, s, ms)
Init ==
    \E h \in HourInputs, m \in MinuteInputs, s \in SecondInputs,
       ms \in MillisecondInputs :
        /\ call = "new"
        /\ time = SignedTime(h, m, s, ms)
        /\ argv = <<h, m, s, ms>>
    /\ recv = 0
    /\ view = <<>>
    /\ fmt = <<>>
    /\ text = <<>>
    /\ err = ErrNone
    /\ from = NoDate
    /\ to = NoDate
    /\ options = NoOptions
    /\ tz = 0
    /\ NoRefs

\* A method of the instance held that returns an instance.
Method(name, result) ==
    /\ call' = name
    /\ time' = result
    /\ recv' = time
    /\ argv' = <<>>
    /\ view' = <<>>
    /\ fmt' = <<>>
    /\ text' = <<>>
    /\ err' = ErrNone
    /\ UNCHANGED dateVars
    /\ UNCHANGED refVars

Abs == Method("abs", abs(time))

Negate == Method("negate", negate(time))

RoundToSecond == Method("roundToSecond", roundToSecond(time))

RoundToMinute == Method("roundToMinute", roundToMinute(time))

RoundToHour == Method("roundToHour", roundToHour(time))

\* The getters hours, minutes, seconds and milliseconds of the instance held.
GetComponents ==
    /\ call' = "get"
    /\ recv' = time
    /\ view' = <<hours(time), minutes(time), seconds(time), milliseconds(time)>>
    /\ argv' = <<>>
    /\ fmt' = <<>>
    /\ text' = <<>>
    /\ err' = ErrNone
    /\ UNCHANGED <<time, from, to, options, tz>>
    /\ UNCHANGED refVars

Next ==
    \/ Abs
    \/ Negate
    \/ RoundToSecond
    \/ RoundToMinute
    \/ RoundToHour
    \/ GetComponents

Spec == Init /\ [][Next]_vars

\* time.toString(format), of an instance just constructed.
ToString ==
    /\ call = "new"
    /\ \E format \in Formats :
        /\ call' = "toString"
        /\ recv' = time
        /\ fmt' = format
        /\ text' = toString(time, format)
    /\ UNCHANGED <<time, argv, view, err, from, to, options, tz>>
    /\ UNCHANGED refVars

\* SignedTime.fromFormat(time.toString(format), format), of an instance just
\* constructed; when fromFormat throws there is no instance: err names the
\* error and time is left 0.
RoundTrip ==
    /\ call = "new"
    /\ \E format \in ParseFormats :
        LET rendered == toString(time, format)
            parsed == fromFormat(rendered, format)
        IN  /\ call' = "fromFormat"
            /\ recv' = time
            /\ fmt' = format
            /\ text' = rendered
            /\ err' = parsed.error
            /\ time' = parsed.value
    /\ UNCHANGED <<argv, view, from, to, options, tz>>
    /\ UNCHANGED refVars

NextFormat ==
    \/ ToString
    \/ RoundTrip

SpecFormat == Init /\ [][NextFormat]_vars

\* The arguments of a call of duration or timeDiff, and the environment's
\* timezone offset.
InitDiff ==
    /\ call = "arguments"
    /\ from \in DateLikeInputs
    /\ to \in DateLikeInputs
    /\ tz \in TimezoneOffsets
    /\ options = NoOptions
    /\ time = 0
    /\ recv = 0
    /\ argv = <<>>
    /\ view = <<>>
    /\ fmt = <<>>
    /\ text = <<>>
    /\ err = ErrNone
    /\ NoRefs

\* duration(from, to); when it throws there is no instance: err names the
\* error and time is left 0.
Duration ==
    /\ call = "arguments"
    /\ LET d == duration(from, to, tz)
       IN  /\ call' = "duration"
           /\ err' = d.error
           /\ time' = d.value
    /\ UNCHANGED <<recv, argv, view, fmt, text, from, to, options, tz>>
    /\ UNCHANGED refVars

\* timeDiff(from, to, o)
TimeDiff ==
    /\ call = "arguments"
    /\ \E o \in OptionsInputs :
        LET d == timeDiff(from, to, o, tz)
        IN  /\ call' = "timeDiff"
            /\ options' = o
            /\ err' = d.error
            /\ time' = d.value
    /\ UNCHANGED <<recv, argv, view, fmt, text, from, to, tz>>
    /\ UNCHANGED refVars

NextDiff ==
    \/ Duration
    \/ TimeDiff

SpecDiff == InitDiff /\ [][NextDiff]_vars

\* The arguments of a call of fromFormat.
InitParse ==
    /\ call = "timeString"
    /\ text \in TimeStrings
    /\ fmt \in TimeStringFormats
    /\ time = 0
    /\ recv = 0
    /\ argv = <<>>
    /\ view = <<>>
    /\ err = ErrNone
    /\ from = NoDate
    /\ to = NoDate
    /\ options = NoOptions
    /\ tz = 0
    /\ NoRefs

\* SignedTime.fromFormat(text, fmt); when it throws there is no instance: err
\* names the error and time is left 0.
FromFormat ==
    /\ call = "timeString"
    /\ LET parsed == fromFormat(text, fmt)
       IN  /\ call' = "parse"
           /\ err' = parsed.error
           /\ time' = parsed.value
    /\ UNCHANGED <<recv, argv, view, fmt, text, from, to, options, tz>>
    /\ UNCHANGED refVars

NextParse == FromFormat

SpecParse == InitParse /\ [][NextParse]_vars

\* A call that returned the instance obj, or threw when obj is 0.
Instance(obj, total, op, this, args) ==
    [obj |-> obj, total |-> total, op |-> op, self |-> this, args |-> args]

\* Two instances, a and b.
InitArith ==
    /\ call = "instances"
    /\ \E a \in ComponentInputs, b \in ComponentInputs :
           calls = <<Instance(1, SignedTime(a[1], a[2], a[3], a[4]), "new", 0, a),
                    Instance(2, SignedTime(b[1], b[2], b[3], b[4]), "new", 0, b)>>
    /\ self = 0
    /\ ret = 0
    /\ time = 0
    /\ recv = 0
    /\ argv = <<>>
    /\ view = <<>>
    /\ fmt = <<>>
    /\ text = <<>>
    /\ err = ErrNone
    /\ from = NoDate
    /\ to = NoDate
    /\ options = NoOptions
    /\ tz = 0

Refs == {r \in 1..Len(calls) : calls[r].obj # 0}

\* The number of the next instance created.
NewObj == Cardinality({calls[r].obj : r \in Refs}) + 1

\* The call calls[this].name(args) is made: ref is the instance it returns,
\* or that it threw, and error what it threw.
Called(name, this, args, ref, error) ==
    /\ calls' = Append(calls, ref)
    /\ self' = this
    /\ ret' = IF ref.obj = 0 THEN 0 ELSE Len(calls) + 1
    /\ call' = name
    /\ recv' = calls[this].total
    /\ argv' = args
    /\ time' = ref.total
    /\ err' = error
    /\ view' = <<>>
    /\ UNCHANGED <<fmt, text>>
    /\ UNCHANGED dateVars

Returns(name, this, args, ref) == Called(name, this, args, ref, ErrNone)

Throws(name, this, args, error) ==
    Called(name, this, args, Instance(0, 0, name, this, args), error)

\* The call calls[this].name(args) returns the new instance
\* SignedTime.fromMilliseconds makes.
ReturnsNew(name, this, args, total) ==
    Returns(name, this, args, Instance(NewObj, total, name, this, args))

Add ==
    /\ Len(calls) < MaxCalls
    /\ \E this \in Refs, other \in Refs :
           ReturnsNew("add", this, <<other>>, add(calls[this].total, calls[other].total))

Subtract ==
    /\ Len(calls) < MaxCalls
    /\ \E this \in Refs, other \in Refs :
           ReturnsNew("subtract", this, <<other>>,
                      subtract(calls[this].total, calls[other].total))

Multiply ==
    /\ Len(calls) < MaxCalls
    /\ \E this \in Refs, scalar \in ScalarInputs :
           ReturnsNew("multiply", this, <<scalar>>, multiply(calls[this].total, scalar))

\* this.divide(scalar), for a scalar that is 0 or divides the total exactly.
Divide ==
    /\ Len(calls) < MaxCalls
    /\ \E this \in Refs, scalar \in ScalarInputs :
           /\ scalar # 0 => MathAbs(calls[this].total) % MathAbs(scalar) = 0
           /\ LET d == divide(calls[this].total, scalar)
              IN  IF d.error = ErrNone
                  THEN ReturnsNew("divide", this, <<scalar>>, d.value)
                  ELSE Throws("divide", this, <<scalar>>, d.error)

NegateOf ==
    /\ Len(calls) < MaxCalls
    /\ \E this \in Refs : ReturnsNew("negate", this, <<>>, negate(calls[this].total))

AbsOf ==
    /\ Len(calls) < MaxCalls
    /\ \E this \in Refs : ReturnsNew("abs", this, <<>>, abs(calls[this].total))

RoundOf ==
    /\ Len(calls) < MaxCalls
    /\ \E this \in Refs :
           \/ ReturnsNew("roundToSecond", this, <<>>, roundToSecond(calls[this].total))
           \/ ReturnsNew("roundToMinute", this, <<>>, roundToMinute(calls[this].total))
           \/ ReturnsNew("roundToHour", this, <<>>, roundToHour(calls[this].total))

\* this.clamp(min, max) returns one of the references it was given.
Clamp ==
    /\ Len(calls) < MaxCalls
    /\ \E this \in Refs, min \in Refs, max \in Refs :
           LET r == clamp([i \in 1..Len(calls) |-> calls[i].total], this, min, max)
           IN  Returns("clamp", this, <<min, max>>,
                       Instance(calls[r].obj, calls[r].total, "clamp", this, <<min, max>>))

\* The getters hours, minutes, seconds and milliseconds, read of an instance
\* just constructed or of the instance the last call returned.
GetComponentsOf ==
    /\ Len(calls) < MaxCalls
    /\ \E this \in Refs :
           /\ call = "instances" \/ this = ret
           /\ call' = "get"
           /\ self' = this
           /\ ret' = 0
           /\ recv' = calls[this].total
           /\ view' = <<hours(calls[this].total), minutes(calls[this].total),
                        seconds(calls[this].total), milliseconds(calls[this].total)>>
           /\ argv' = <<>>
           /\ err' = ErrNone
    /\ UNCHANGED <<calls, time, fmt, text>>
    /\ UNCHANGED dateVars

NextArith ==
    \/ GetComponentsOf
    \/ Add
    \/ Subtract
    \/ Multiply
    \/ Divide
    \/ NegateOf
    \/ AbsOf
    \/ RoundOf
    \/ Clamp

SpecArith == InitArith /\ [][NextArith]_vars

(***************************************************************************)
(* Properties.                                                             *)
(***************************************************************************)

\* C1: the instance constructed from any integers h, m, s, ms holds
\* h*3600000 + m*60000 + s*1000 + ms; no component is normalized and no
\* argument is rejected.
C1_ConstructorIsLinear ==
    call = "new" =>
        /\ err = ErrNone
        /\ time = argv[1] * 3600000 + argv[2] * 60000 + argv[3] * 1000 + argv[4]

\* new SignedTime(-1, 90, 45, -500) holds 1844500 ms.
C1_Witness ==
    /\ call = "new"
    /\ argv = <<-1, 90, 45, -500>>
    /\ time = 1844500

\* The multiple of unit nearest to t, an exact half going away from zero.
RoundHalfAwayFromZero(t, unit) ==
    MathSign(t) * ((2 * MathAbs(t) + unit) \div (2 * unit)) * unit

\* C2: roundToSecond, roundToMinute and roundToHour return the multiple of
\* the unit nearest to the receiver, an exact half going away from zero for
\* both signs.
C2_RoundsHalfAwayFromZero ==
    /\ call = "roundToSecond" => time = RoundHalfAwayFromZero(recv, 1000)
    /\ call = "roundToMinute" => time = RoundHalfAwayFromZero(recv, 60000)
    /\ call = "roundToHour" => time = RoundHalfAwayFromZero(recv, 3600000)

\* Whether a DateLike argument is null or undefined or resolves to a Date
\* without a time value.
IsInvalidDateLike(value) ==
    value.kind \in {"null", "undefined", "object"} \/ value.nan

\* The local clock reading of a valid DateLike argument, in milliseconds
\* since local midnight.
TimeOfDayMs(value, offset) == (value.t - offset * 60000) % (24 * 3600000)

\* C3: for valid from and to, duration returns the difference of the local
\* clock readings, to minus from; the calendar dates have no effect.
C3_DurationIsClockDifference ==
    (call = "duration" /\ ~IsInvalidDateLike(from) /\ ~IsInvalidDateLike(to)) =>
        /\ err = ErrNone
        /\ time = TimeOfDayMs(to, tz) - TimeOfDayMs(from, tz)
        /\ (from.t % (24 * 3600000) = to.t % (24 * 3600000)) => time = 0
        /\ TimeOfDayMs(from, tz) > TimeOfDayMs(to, tz) => time < 0

\* From 12:00 of one day to 10:00 of the next the duration is minus 2 hours.
C3_Witness ==
    /\ call = "duration"
    /\ from.kind = "number" /\ from.t = 43200000
    /\ to.kind = "number" /\ to.t = 24 * 3600000 + 36000000
    /\ err = ErrNone
    /\ time = -7200000

\* C4: duration throws 'Invalid Date' exactly when one of its arguments is
\* invalid, whichever it is, and timeDiff throws in the same cases, for
\* every options value, and throws nothing else.
C4_InvalidDateThrows ==
    call \in {"duration", "timeDiff"} =>
        /\ (IsInvalidDateLike(from) \/ IsInvalidDateLike(to))
               => err = ErrInvalidDate
        /\ ~(IsInvalidDateLike(from) \/ IsInvalidDateLike(to))
               => err = ErrNone

\* timeDiff(valid, null, {absolute: true, roundTo: 'hour'}) throws.
C4_Witness ==
    /\ call = "timeDiff"
    /\ ~IsInvalidDateLike(from)
    /\ to.kind = "null"
    /\ options = [absolute |-> "true", roundTo |-> "hour"]
    /\ err = ErrInvalidDate

\* The rounding an options.roundTo value names.
RoundTo(unit, t) ==
    IF unit = "hour" THEN roundToHour(t)
    ELSE IF unit = "minute" THEN roundToMinute(t)
    ELSE IF unit = "second" THEN roundToSecond(t)
    ELSE t

\* C5: timeDiff returns duration(from, to), made absolute first when
\* options.absolute is true, and then rounded as options.roundTo names.
C5_AbsoluteThenRound ==
    (call = "timeDiff" /\ err = ErrNone) =>
        LET d0 == duration(from, to, tz).value
            d1 == IF options.absolute = "true" THEN abs(d0) ELSE d0
        IN  time = RoundTo(options.roundTo, d1)

\* timeDiff from 00:00:01.500 to 00:00:00.000, absolute and rounded to the
\* second, is 2 seconds: 1500 ms rounded, not the absolute value of -1500 ms
\* rounded to -1000 ms.
C5_Witness ==
    /\ call = "timeDiff"
    /\ from.t = 1500 /\ to.t = 0
    /\ options = [absolute |-> "true", roundTo |-> "second"]
    /\ err = ErrNone
    /\ time = 2000

\* C6: rounding and absolute value commute, so timeDiff with absolute: true
\* returns the same whichever of the two is applied first.
C6_RoundAndAbsCommute ==
    (call = "timeDiff" /\ err = ErrNone /\ options.absolute = "true") =>
        LET d0 == duration(from, to, tz).value
        IN  /\ RoundTo(options.roundTo, abs(d0)) = abs(RoundTo(options.roundTo, d0))
            /\ time = abs(RoundTo(options.roundTo, d0))

\* C7: each getter returns 0 or a number of the sign of totalMilliseconds;
\* minus 1h30m has hours -1 and minutes -30.
C7_ComponentsShareSign ==
    call = "get" =>
        /\ \A i \in 1..4 : view[i] = 0 \/ MathSign(view[i]) = MathSign(recv)
        /\ recv = -5400000 => (view[1] = -1 /\ view[2] = -30)

C7_Witness ==
    /\ call = "get"
    /\ recv = -5400000
    /\ view = <<-1, -30, 0, 0>>

\* C8: under the default format, parsing the rendering of a duration of at
\* most 99 hours of magnitude returns a duration equal to it.
C8_DefaultRoundTrip ==
    (call = "fromFormat" /\ fmt = DefaultFormat /\ MathAbs(recv) < 100 * 3600000) =>
        /\ err = ErrNone
        /\ time = recv

\* Minus 1h30m renders as '-01:30:00.000' and parses back.
C8_Witness ==
    /\ call = "fromFormat"
    /\ fmt = DefaultFormat
    /\ recv = -5400000
    /\ text = <<"-", "0", "1", ":", "3", "0", ":", "0", "0", ".", "0", "0", "0">>
    /\ err = ErrNone
    /\ time = recv

\* C9, as claimed: under any format without repeated or ambiguous tokens,
\* such as 'h:m:s' or 'h:mm:ss.SSS', parsing the rendering of any duration
\* returns a duration equal to it.
C9_AnyFormatRoundTrip ==
    (call = "fromFormat" /\ fmt \in {FormatHMS, FormatHMmSsSSS}) =>
        /\ err = ErrNone
        /\ time = recv

\* Whether the format holds a token of the component written with letter c.
HasToken(format, c) == \E i \in 1..Len(format) : format[i] = c

\* Whether every component of t that has no token in the format is 0.
TokenlessComponentsZero(t, format) ==
    /\ HasToken(format, "h") \/ MathAbs(t) < 3600000
    /\ HasToken(format, "m") \/ (MathAbs(t) % 3600000) < 60000
    /\ HasToken(format, "s") \/ (MathAbs(t) % 60000) < 1000
    /\ HasToken(format, "S") \/ (MathAbs(t) % 1000) = 0

\* C9, amended: under a format of at most one token per component, the
\* tokens separated by ':' or '.', parsing the rendering of a duration returns
\* a duration equal to it when the duration has at most 99 hours of magnitude
\* and its components without a token in the format are 0.
C9_SeparatedFormatRoundTrip ==
    (/\ call = "fromFormat"
     /\ fmt \in ParseFormats
     /\ MathAbs(recv) < 100 * 3600000
     /\ TokenlessComponentsZero(recv, fmt)) =>
        /\ err = ErrNone
        /\ time = recv

\* 1h30m45s renders as '1:30:45' under 'h:m:s' and parses back.
C9_Witness ==
    /\ call = "fromFormat"
    /\ fmt = FormatHMS
    /\ recv = 5445000
    /\ text = <<"1", ":", "3", "0", ":", "4", "5">>
    /\ err = ErrNone
    /\ time = recv

\* C10: toString('h hours m minutes s seconds') replaces the three
\* stand-alone tokens and leaves the words as they are, so that 1h30m45.5s
\* renders as '1 hours 30 minutes 45 seconds'.
C10_WordsAreKept ==
    (call = "toString" /\ fmt = FormatWords) =>
        /\ text = (IF recv < 0 THEN <<"-">> ELSE <<>>)
                  \o NumberToString(MathAbs(recv) \div 3600000)
                  \o <<" ", "h", "o", "u", "r", "s", " ">>
                  \o NumberToString((MathAbs(recv) % 3600000) \div 60000)
                  \o <<" ", "m", "i", "n", "u", "t", "e", "s", " ">>
                  \o NumberToString((MathAbs(recv) % 60000) \div 1000)
                  \o <<" ", "s", "e", "c", "o", "n", "d", "s">>
        /\ recv = 5445500 => text = 
            <<"1", " ", "h", "o", "u", "r", "s", " ", "3", "0", " ">>
            \o <<"m", "i", "n", "u", "t", "e", "s", " ", "4", "5", " ", "s", "e", "c", "o", "n", "d", "s">>

\* The decimal digits of n >= 0, with zeros in front up to width digits.
RECURSIVE Digits(_, _)
Digits(n, width) ==
    IF n < 10 /\ width <= 1 THEN <<DigitChars[n + 1]>>
    ELSE Digits(n \div 10, width - 1) \o <<DigitChars[(n % 10) + 1]>>

\* C11: toString() with the default format renders the magnitude of the
\* total as hours of at least 2 digits, neither wrapped at 24 nor capped,
\* ':' minutes 00-59 ':' seconds 00-59 '.' milliseconds 000-999, with '-' in
\* front exactly when the total is negative.
C11_DefaultRendering ==
    (call = "toString" /\ fmt = DefaultFormat) =>
        LET a == MathAbs(recv)
        IN  text = (IF recv < 0 THEN <<"-">> ELSE <<>>)
                   \o Digits(a \div 3600000, 2) \o <<":">>
                   \o Digits((a \div 60000) % 60, 2) \o <<":">>
                   \o Digits((a \div 1000) % 60, 2) \o <<".">>
                   \o Digits(a % 1000, 3)

\* 25h30m45.5s renders as '25:30:45.500'.
C11_Witness ==
    /\ call = "toString"
    /\ fmt = DefaultFormat
    /\ recv = SignedTime(25, 30, 45, 500)
    /\ text = <<"2", "5", ":", "3", "0", ":", "4", "5", ".", "5", "0", "0">>

\* The numbers of digits a token stands for: exactly 2 for hh, mm and ss,
\* exactly 3 for SSS, 1 to 2 for h, m and s, 1 to 3 for S.
TokenWidths(token) ==
    IF Len(token) = 3 THEN {3}
    ELSE IF Len(token) = 2 THEN {2}
    ELSE IF token = <<"S">> THEN {1, 2, 3}
    ELSE {1, 2}

\* The token that starts at position i of the format: the longest one, or
\* <<>> when none does.
TokenAt(format, i) ==
    IF \E c \in {"h", "m", "s"} : OccursAt(format, <<c, c>>, i)
    THEN SubSeq(format, i, i + 1)
    ELSE IF OccursAt(format, <<"S", "S", "S">>, i) THEN SubSeq(format, i, i + 2)
    ELSE IF i <= Len(format) /\ format[i] \in {"h", "m", "s", "S"}
         THEN <<format[i]>>
    ELSE <<>>

\* Whether str[j..] is, over its whole length, format[i..] with every token
\* replaced by a number of digits the token stands for and every other
\* character kept as it is.
RECURSIVE Accepts(_, _, _, _)
Accepts(format, i, str, j) ==
    IF i > Len(format) THEN j > Len(str)
    ELSE LET token == TokenAt(format, i)
         IN  IF token = <<>>
             THEN /\ j <= Len(str)
                  /\ str[j] = format[i]
                  /\ Accepts(format, i + 1, str, j + 1)
             ELSE \E n \in TokenWidths(token) :
                      /\ DigitsAt(str, j, n)
                      /\ Accepts(format, i + Len(token), str, j + n)

\* The string without one '-' in front of it.
WithoutSign(str) == IF str # <<>> /\ Head(str) = "-" THEN Tail(str) ELSE str

\* C12: under a format whose tokens are separated by ':', '.', '/' or a
\* space, fromFormat(text, format) throws the format error, and returns no
\* duration, exactly when text without one leading '-' is not the format
\* with digits for its tokens over its whole length: '25:00:00' under
\* 'hh:mm:ss.SSS', a wrong number of digits, or a character more in front or
\* behind all fail.
C12_MismatchThrows ==
    (call = "parse" /\ fmt \in SeparatorFormats) =>
        /\ err \in {ErrNone, ErrFormat}
        /\ err = ErrFormat <=> ~Accepts(fmt, 1, WithoutSign(text), 1)
        /\ err = ErrFormat => time = 0
        /\ (fmt = DefaultFormat /\ Len(WithoutSign(text)) # 12) => err = ErrFormat

\* '25:00:00' under 'hh:mm:ss.SSS' throws.
C12_Witness ==
    /\ call = "parse"
    /\ fmt = DefaultFormat
    /\ text = <<"2", "5", ":", "0", "0", ":", "0", "0">>
    /\ err = ErrFormat

\* C13, as claimed: for every text that parses under a format, the text with
\* a '-' put in front of it parses under the format too, to the negation of
\* the duration the text parses to.
C13_SignNegatesAnyText ==
    (call = "parse" /\ err = ErrNone) =>
        fromFormat(<<"-">> \o text, fmt) = [error |-> ErrNone, value |-> negate(time)]

\* C13, amended: for every text that parses under a format and does not
\* itself begin with '-', the text with a '-' put in front of it parses to
\* the negation of the duration the text parses to; the sign is given to the
\* whole duration, so that '-01:30:00.000' parses to minus 1h30m, the
\* duration new SignedTime(-1, -30, 0, 0) holds.
C13_SignNegatesUnsignedText ==
    /\ (call = "parse" /\ err = ErrNone /\ text = WithoutSign(text)) =>
           fromFormat(<<"-">> \o text, fmt)
               = [error |-> ErrNone, value |-> negate(time)]
    /\ (call = "parse" /\ fmt = DefaultFormat
          /\ text = <<"-", "0", "1", ":", "3", "0", ":", "0", "0", ".", "0", "0", "0">>) =>
           (err = ErrNone /\ time = SignedTime(-1, -30, 0, 0))

\* '-01:30:00.000' parses to minus 1h30m.
C13_Witness ==
    /\ call = "parse"
    /\ fmt = DefaultFormat
    /\ text = <<"-", "0", "1", ":", "3", "0", ":", "0", "0", ".", "0", "0", "0">>
    /\ err = ErrNone
    /\ time = -5400000

\* C14: divide(0) throws the division error for every receiver, the zero
\* duration included, and returns no instance; divide by a scalar that is not
\* 0 throws nothing and returns an instance.
C14_DivideByZeroThrows ==
    call = "divide" =>
        /\ argv[1] = 0 => (err = ErrDivision /\ ret = 0)
        /\ argv[1] # 0 => (err = ErrNone /\ ret # 0 /\ time * argv[1] = recv)

\* The zero duration, here a.multiply(0), divided by 0 throws.
C14_Witness ==
    /\ call = "divide"
    /\ recv = 0
    /\ argv = <<0>>
    /\ err = ErrDivision
    /\ ret = 0

\* C15: a.add(b).subtract(b).equals(a), a.negate().negate().equals(a) and
\* a.add(b).equals(b.add(a)), for all instances a and b, whatever returned
\* them.
C15_AdditiveLaws ==
    \A r \in Refs, q \in Refs :
        LET x == calls[r]
            y == calls[q]
        IN  /\ (x.op = "add" /\ y.op = "subtract" /\ y.self = r /\ y.args = x.args)
                   => equals(y.total, calls[x.self].total)
            /\ (x.op = "negate" /\ y.op = "negate" /\ y.self = r)
                   => equals(y.total, calls[x.self].total)
            /\ (x.op = "add" /\ y.op = "add" /\ y.self = x.args[1]
                  /\ y.args[1] = x.self)
                   => equals(x.total, y.total)

\* a = -1500 ms and b = -1h30m: a.add(b) holds -5401500 ms and
\* a.add(b).subtract(b) holds -1500 ms again.
C15_Witness ==
    /\ Len(calls) = 4
    /\ calls[1].total = -1500
    /\ calls[2].total = -5400000
    /\ calls[3].op = "add" /\ calls[3].self = 1 /\ calls[3].args = <<2>>
    /\ calls[3].total = -5401500
    /\ calls[4].op = "subtract" /\ calls[4].self = 3 /\ calls[4].args = <<2>>
    /\ calls[4].total = -1500

\* The unit of each rounding method.
RoundingUnit(op) ==
    IF op = "roundToSecond" THEN 1000
    ELSE IF op = "roundToMinute" THEN 60000
    ELSE 3600000

Roundings == {"roundToSecond", "roundToMinute", "roundToHour"}

\* C16: rounding what the same rounding returned returns a duration equal to
\* it, for receivers of either sign and exact halves of the unit; what a
\* rounding returns is a multiple of its unit.
C16_RoundingIdempotent ==
    \A r \in Refs, q \in Refs :
        LET x == calls[r]
            y == calls[q]
        IN  /\ x.op \in Roundings => x.total % RoundingUnit(x.op) = 0
            /\ (x.op \in Roundings /\ y.op = x.op /\ y.self = r)
                   => equals(y.total, x.total)

\* -1500 ms rounds to -1000 ms, and that to -1000 ms again.
C16_Witness ==
    /\ Len(calls) = 4
    /\ calls[1].total = -1500
    /\ calls[3].op = "roundToSecond" /\ calls[3].self = 1
    /\ calls[3].total = -1000
    /\ calls[4].op = "roundToSecond" /\ calls[4].self = 3
    /\ calls[4].total = -1000

\* C17: for min <= max, x.clamp(min, max) returns min when x < min, max when
\* x > max and x otherwise; what it returns is between min and max, both
\* included, and equals x exactly when x is between min and max.
C17_ClampIsBetween ==
    (call = "clamp" /\ calls[argv[1]].total <= calls[argv[2]].total) =>
        LET x == calls[self]
            min == calls[argv[1]]
            max == calls[argv[2]]
            r == calls[ret]
        IN  /\ err = ErrNone
            /\ x.total < min.total => r.obj = min.obj
            /\ x.total > max.total => r.obj = max.obj
            /\ (min.total <= x.total /\ x.total <= max.total) => r.obj = x.obj
            /\ isBetween(r.total, min.total, max.total)
            /\ min.total <= r.total /\ r.total <= max.total
            /\ equals(r.total, x.total) <=> isBetween(x.total, min.total, max.total)

\* x = -1h30m, min = -1500 ms, max = min.abs() = 1500 ms: x.clamp(min, max)
\* returns min.
C17_Witness ==
    /\ call = "clamp"
    /\ Len(calls) = 4
    /\ calls[1].total = -5400000
    /\ calls[2].total = -1500
    /\ calls[3].op = "abs" /\ calls[3].self = 2 /\ calls[3].total = 1500
    /\ self = 1 /\ argv = <<2, 3>>
    /\ ret = 4
    /\ calls[4].obj = calls[2].obj
    /\ time = -1500

\* C18: add, subtract, multiply, divide, negate, abs, the roundings and clamp
\* each return an instance created by the call, which is neither the
\* receiver nor an argument nor any instance that existed before, and no
\* call changes the #totalMilliseconds of an instance.
C18_EveryCallReturnsNew ==
    \A r \in Refs, q \in Refs :
        /\ q < r => calls[q].obj # calls[r].obj
        /\ calls[q].obj = calls[r].obj => calls[q].total = calls[r].total

\* The '-' toString puts in front of the rendering of a negative duration.
SignOf(t) == IF t < 0 THEN <<"-">> ELSE <<>>

\* C19: of a token that occurs twice in the format, toString
\* replaces the first occurrence and leaves the second as it is, the
\* two-letter tokens included: 'hh-hh' renders one hour as '01-hh' and 'mm:mm'
\* renders 30 minutes as '30:mm'.
C19_SecondTokenKept ==
    call = "toString" =>
        LET a == MathAbs(recv)
        IN  /\ fmt = FormatHH =>
                   text = SignOf(recv) \o NumberToString(a \div 3600000)
                              \o <<"-", "h">>
            /\ fmt = FormatHhHh =>
                   text = SignOf(recv) \o Digits(a \div 3600000, 2)
                              \o <<"-", "h", "h">>
            /\ fmt = FormatMmMm =>
                   text = SignOf(recv) \o Digits((a \div 60000) % 60, 2)
                              \o <<":", "m", "m">>

\* C20: fromFormat matches every character of the format that is not part
\* of a token literally, '+' as well as ':', '.', '/' and the space: a string
\* is accepted exactly when it is the format with digits for its tokens, and
\* each group of digits goes to the component of its token, so that '1+30'
\* under 'h+m' is 1h30m and '130' under 'h+m' is not accepted.
C20_OtherCharactersLiteral ==
    call = "parse" =>
        /\ err = ErrNone <=> Accepts(fmt, 1, WithoutSign(text), 1)
        /\ (fmt = FormatPlus /\ text = <<"1", "+", "3", "0">>)
               => time = SignedTime(1, 30, 0, 0)
        /\ (fmt = FormatSlash /\ text = <<"1", "/", "3", "0", " ", "4", "5">>)
               => time = SignedTime(1, 30, 45, 0)

\* The numbers written in str[i..] in decimal digits, left to right: one for
\* each longest run of digits.
RECURSIVE NumbersFrom(_, _)
NumbersFrom(str, i) ==
    LET starts == {k \in i..Len(str) : IsDigit(str[k])}
    IN  IF starts = {} THEN <<>>
        ELSE LET j == CHOOSE k \in starts : \A l \in starts : k <= l
                 ends == {k \in j..Len(str) :
                             /\ \A l \in j..k : IsDigit(str[l])
                             /\ k = Len(str) \/ ~IsDigit(str[k + 1])}
                 e == CHOOSE k \in ends : TRUE
             IN  <<parseInt(SubSeq(str, j, e))>> \o NumbersFrom(str, e + 1)

\* The letters of the tokens of the format, left to right.
TokenLetters(format) ==
    LET at == {k \in 1..Len(format) :
                  /\ format[k] \in {"h", "m", "s", "S"}
                  /\ k = 1 \/ format[k - 1] # format[k]}
        nth[n \in 1..Cardinality(at)] ==
            CHOOSE k \in at : Cardinality({l \in at : l < k}) = n - 1
    IN  [n \in 1..Cardinality(at) |-> format[nth[n]]]

\* The number written for the token of letter c, 0 when the format holds no
\* such token.
WrittenFor(c, format, str) ==
    LET letters == TokenLetters(format)
        numbers == NumbersFrom(str, 1)
        at == {k \in 1..Len(letters) : letters[k] = c /\ k <= Len(numbers)}
    IN  IF at = {} THEN 0 ELSE numbers[CHOOSE k \in at : TRUE]

\* C21: under a format whose tokens are separated by ':', '.', '/' or a
\* space, what fromFormat returns for an accepted input holds
\* H*3600000 + M*60000 + S*1000 + MS for the numbers H, M, S, MS written for
\* the tokens, negated when the input began with '-': the carries of seconds
\* of 60 and more and of minutes of 60 and more do not change the value, the
\* hours are not reduced, and a component without a token contributes 0.
C21_CarryKeepsValue ==
    (call = "parse" /\ fmt \in SeparatorFormats /\ err = ErrNone) =>
        LET v == WrittenFor("h", fmt, text) * 3600000
                 + WrittenFor("m", fmt, text) * 60000
                 + WrittenFor("s", fmt, text) * 1000
                 + WrittenFor("S", fmt, text)
        IN  time = IF text = WithoutSign(text) THEN v ELSE -v

\* '-1:75:90' under 'h:m:s' is minus 1 h 75 min 90 s, that is -02:16:30.000.
C21_Witness ==
    /\ call = "parse"
    /\ fmt = FormatHMS
    /\ text = <<"-", "1", ":", "7", "5", ":", "9", "0">>
    /\ err = ErrNone
    /\ time = -(3600000 + 75 * 60000 + 90 * 1000)
    /\ hours(time) = -2 /\ minutes(time) = -16 /\ seconds(time) = -30

\* Whether h, m, s, ms are a signed decomposition of the total t without
\* loss: they add up to t, and minutes, seconds and milliseconds are within
\* 59, 59 and 999 of magnitude.
IsDecomposition(h, m, s, ms, t) ==
    /\ h * 3600000 + m * 60000 + s * 1000 + ms = t
    /\ MathAbs(m) <= 59
    /\ MathAbs(s) <= 59
    /\ MathAbs(ms) <= 999

\* Whether the components are within their ranges and of one sign.
InRangeOneSign(c) ==
    /\ MathAbs(c[2]) <= 59 /\ MathAbs(c[3]) <= 59 /\ MathAbs(c[4]) <= 999
    /\ (\A i \in 1..4 : c[i] >= 0) \/ (\A i \in 1..4 : c[i] <= 0)

\* C22: of every instance constructed of integer components or returned by
\* add, subtract, negate, abs, multiply, a rounding or clamp, the getters
\* are a decomposition of totalMilliseconds without loss; an instance
\* constructed of components within their ranges and of one sign returns
\* those components.
C22_GettersDecompose ==
    /\ \A r \in Refs :
           LET t == calls[r].total
           IN  IsDecomposition(hours(t), minutes(t), seconds(t), milliseconds(t), t)
    /\ call = "get" =>
           /\ IsDecomposition(view[1], view[2], view[3], view[4], calls[self].total)
           /\ (calls[self].op = "new" /\ InRangeOneSign(calls[self].args))
                  => view = calls[self].args

\* The getters of a.add(b), for a = -1h30m and b = -1500 ms, return -1, -30,
\* -1 and -500.
C22_Witness ==
    /\ call = "get"
    /\ calls[1].args = <<-1, -30, 0, 0>>
    /\ calls[2].args = <<0, 0, -1, -500>>
    /\ Len(calls) = 3
    /\ calls[3].op = "add" /\ calls[3].self = 1 /\ calls[3].args = <<2>>
    /\ self = 3
    /\ view = <<-1, -30, -1, -500>>

\* C23: for valid from and to, duration(from, to) is more than minus one day
\* and less than one day, duration(a, a) is zero and duration(from, to)
\* equals duration(to, from).negate(); timeDiff with absolute: true returns
\* no negative duration, whatever roundTo is.
C23_DurationWithinOneDay ==
    /\ (call = "duration" /\ err = ErrNone) =>
           /\ -86400000 < time /\ time < 86400000
           /\ from = to => time = 0
           /\ duration(to, from, tz) = [error |-> ErrNone, value |-> negate(time)]
    /\ (call = "timeDiff" /\ err = ErrNone /\ options.absolute = "true") =>
           time >= 0

\* From local 00:00:00.000 to local 23:59:59.999 of the day before, the
\* duration is 23:59:59.999.
C23_Witness ==
    /\ call = "duration"
    /\ tz = -540
    /\ from.kind = "number" /\ from.t = 24 * 3600000 + 54000000
    /\ to.kind = "number" /\ to.t = 53999999
    /\ err = ErrNone
    /\ time = 86399999

=============================================================================
